---- MODULE Spec2Model ----
(***************************************************************************)
(* Model of the waste classification pipeline of project_doll:            *)
(*   - useTensorFlowModel   : the on-device model lifecycle (loadModel)    *)
(*   - useAPIClassification : the remote API classifier                    *)
(*   - useWasteClassification / classifyWaste : the orchestrator           *)
(*   - mockClassification   : the simulated classifier                     *)
(*   - analyzeImageQuality / processEnhancedPredictions : pure helpers     *)
(*                                                                         *)
(* Every React component that calls useWasteClassification owns one hook   *)
(* instance (its own useState cells); the IndexedDB model cache and the    *)
(* configuration are shared by the whole page.                             *)
(*                                                                         *)
(* Numbers: a luminance is kept exactly as the pair (sum of the channel    *)
(* values, 3 * pixel count); a model score s in [0,1] is kept as the       *)
(* integer 100*s; a confidence before rounding is kept in hundredths.      *)
(***************************************************************************)
EXTENDS Integers, Sequences, FiniteSets, TLC

\* ------------------------------------------------------------------ bounds
NumConsumers == 2      \* components that mount the classification hooks
MaxCalls == 1          \* classifyWaste calls that may be in flight at once

Consumers == 1..NumConsumers
Calls == 1..MaxCalls

VARIABLES
  cfg,            \* mlConfig: [tensorflowModelUrl, apiEndpoint : BOOLEAN]
  cache,          \* IndexedDB entry under ecosort-waste-classifier-v2
  cacheWrites,    \* number of model.save calls that stored the model
  lpc,            \* per consumer: where its loadModel() is
  loadingState,   \* per consumer: useState loadingState
  model,          \* per consumer: useState model
  error,          \* per consumer: useState error (useTensorFlowModel)
  modelInfo,      \* per consumer: useState modelInfo
  isOfflineMode,  \* per consumer: useState isOfflineMode
  attempts,       \* per consumer: the sources loadModel tried, in order
  apiLoading,     \* per consumer: useAPIClassification loading
  apiError,       \* per consumer: useAPIClassification error
  loading,        \* per consumer: useWasteClassification loading
  calls,          \* the classifyWaste calls
  direct,         \* per consumer: its direct classifyImageViaAPI call
  image,          \* the image handed to analyzeImageQuality
  analysis,       \* what analyzeImageQuality returned for it
  scores,         \* the scores handed to processEnhancedPredictions
  lighting,       \* the lightingConditions handed to it
  predicted,      \* what it returned, for each quality
  authUser,       \* AuthProvider: useState user
  seenUser,       \* AuthProvider: the user its last render closed over
  authLoading,    \* AuthProvider: useState loading
  authPc,         \* AuthProvider: whether its mount effect has run
  authPending,    \* AuthProvider: login and signup calls awaiting their timer
  stored          \* localStorage entry under ecosort_user

loadVars == <<cache, cacheWrites, lpc, loadingState, model, error,
              modelInfo, isOfflineMode, attempts>>
callVars == <<apiLoading, apiError, loading, calls, direct>>
authVars == <<authUser, seenUser, authLoading, authPc, authPending, stored>>
probeVars == <<image, analysis, scores, lighting, predicted, authVars>>
vars == <<cfg, loadVars, callVars, probeVars>>

Null == "null"

\* A value a rejected promise carries: an Error with a message, or anything
\* else (err instanceof Error is false).
Thrown == { [isError |-> TRUE, message |-> "Request failed"],
            [isError |-> FALSE, message |-> ""] }

\* err instanceof Error ? err.message : dflt
CatchMessage(err, dflt) == IF err.isError THEN err.message ELSE dflt

\* =====================================================================
\* Model lifecycle: useTensorFlowModel / loadModel
\* =====================================================================

\* useState<MLModel | null>(null): no model info, as a record without a name.
NoInfo == [name |-> "", version |-> "", loadingState |-> "idle",
           offlineCapable |-> FALSE]

OfflineInfo == [name |-> "EcoSort Offline Classifier", version |-> "2.0.0",
                loadingState |-> "loaded", offlineCapable |-> TRUE]
RemoteInfo == [name |-> "EcoSort Waste Classifier", version |-> "2.1.0",
               loadingState |-> "loaded", offlineCapable |-> TRUE]
DemoInfo == [name |-> "EcoSort Demo Classifier", version |-> "1.0.0",
             loadingState |-> "loaded", offlineCapable |-> TRUE]

\* A catch block of loadModel that records the message only.
LoadFailedKeepsLoading(i, err) ==
  /\ error' = [error EXCEPT ![i] = CatchMessage(err, "Failed to load ML model")]
  /\ UNCHANGED loadingState
  /\ lpc' = [lpc EXCEPT ![i] = "done"]

\* A catch block of loadModel that sets the state and drops the message.
LoadFailedNoMessage(i, err) ==
  /\ UNCHANGED error
  /\ loadingState' = [loadingState EXCEPT ![i] = "error"]
  /\ lpc' = [lpc EXCEPT ![i] = "done"]

\* The catch block of loadModel.
LoadFailed(i, err) ==
  /\ error' = [error EXCEPT ![i] = CatchMessage(err, "Failed to load ML model")]
  /\ loadingState' = [loadingState EXCEPT ![i] = "error"]
  /\ lpc' = [lpc EXCEPT ![i] = "done"]

\* useEffect(() => { loadModel() }, []) on mount: setLoadingState("loading")
\* and the dynamic import of TensorFlow.js is awaited.
Mount(i) ==
  /\ lpc[i] = "initial"
  /\ loadingState' = [loadingState EXCEPT ![i] = "loading"]
  /\ lpc' = [lpc EXCEPT ![i] = "import"]
  /\ UNCHANGED <<cfg, cache, cacheWrites, model, error, modelInfo,
                 isOfflineMode, attempts, callVars, probeVars>>

\* The import settles; on success loadOfflineModel starts reading the cache.
ImportSettle(i) ==
  /\ lpc[i] = "import"
  /\ \/ /\ lpc' = [lpc EXCEPT ![i] = "offline"]
        /\ UNCHANGED <<error, loadingState>>
     \/ \E err \in Thrown : LoadFailed(i, err)
  /\ UNCHANGED <<cfg, cache, cacheWrites, model, modelInfo, isOfflineMode,
                 attempts, callVars, probeVars>>

\* loadOfflineModel reading a key under which nothing was ever saved.
loadOfflineModelWrongKey(c) == Null

\* loadOfflineModel: tf.loadLayersModel("indexeddb://...") resolves exactly
\* when the cache holds a usable model; any failure is turned into null.
loadOfflineModel(c) == IF c = "model" THEN "offline" ELSE Null

\* loadModel without the `return` that follows the offline hit.
AfterOfflineNoReturn(found, urlConfigured) ==
  IF urlConfigured THEN "remote" ELSE "demo"

\* Where loadModel goes after loadOfflineModel: it returns when a model was
\* found, else it loads from the configured URL, else it builds the demo.
AfterOffline(found, urlConfigured) ==
  IF found THEN "done"
  ELSE IF urlConfigured THEN "remote" ELSE "demo"

\* The model a model info belongs to.
ModelOf(info) ==
  IF info = OfflineInfo THEN "offline"
  ELSE IF info = RemoteInfo THEN "remote" ELSE "demo"

\* The setters of a load path called with setLoadingState("loaded") first
\* and setModel last, seen before setModel has run.
StoreLoadedFirst(i, m, info) ==
  /\ loadingState' = [loadingState EXCEPT ![i] = "loaded"]
  /\ modelInfo' = [modelInfo EXCEPT ![i] = info]
  /\ lpc' = [lpc EXCEPT ![i] = "stored"]
  /\ UNCHANGED model

\* setModel(..), setModelInfo(..), setLoadingState("loaded") run after an
\* await: where React does not batch them, each setter renders on its own,
\* and a render shows the model and its info stored while the state is still
\* "loading".
Store(i, m, info) ==
  /\ model' = [model EXCEPT ![i] = m]
  /\ modelInfo' = [modelInfo EXCEPT ![i] = info]
  /\ lpc' = [lpc EXCEPT ![i] = "stored"]
  /\ UNCHANGED loadingState

\* The render after the last setter: the model is set and the state is
\* "loaded"; loadModel goes on (it returns, or it caches the remote model).
CommitLoaded(i) ==
  /\ lpc[i] = "stored"
  /\ LET m == ModelOf(modelInfo[i]) IN
     /\ model' = [model EXCEPT ![i] = m]
     /\ loadingState' = [loadingState EXCEPT ![i] = "loaded"]
     /\ lpc' = [lpc EXCEPT
          ![i] = CASE m = "offline" -> AfterOffline(TRUE, cfg.tensorflowModelUrl)
                   [] m = "remote" -> "caching"
                   [] OTHER -> "done"]
  /\ UNCHANGED <<cfg, cache, cacheWrites, error, modelInfo, isOfflineMode,
                 attempts, callVars, probeVars>>

\* The continuation of loadModel after `await loadOfflineModel(tf)`.
OfflineSettle(i) ==
  /\ lpc[i] = "offline"
  /\ LET offlineModel == loadOfflineModel(cache) IN
     IF offlineModel # Null
     THEN /\ \/ /\ model' = [model EXCEPT ![i] = offlineModel]
                /\ modelInfo' = [modelInfo EXCEPT ![i] = OfflineInfo]
                /\ loadingState' = [loadingState EXCEPT ![i] = "loaded"]
                /\ lpc' = [lpc EXCEPT
                            ![i] = AfterOffline(TRUE, cfg.tensorflowModelUrl)]
             \/ Store(i, offlineModel, OfflineInfo)
          /\ isOfflineMode' = [isOfflineMode EXCEPT ![i] = TRUE]
          /\ attempts' = [attempts EXCEPT
                            ![i] = Append(@, [src |-> "offline", ok |-> TRUE])]
     ELSE /\ lpc' = [lpc EXCEPT ![i] = AfterOffline(FALSE, cfg.tensorflowModelUrl)]
          /\ attempts' = [attempts EXCEPT
                            ![i] = Append(@, [src |-> "offline", ok |-> FALSE])]
          /\ UNCHANGED <<model, modelInfo, isOfflineMode, loadingState>>
  /\ UNCHANGED <<cfg, cache, cacheWrites, error, callVars, probeVars>>

\* tf.loadLayersModel(mlConfig.tensorflowModelUrl) settles.  On success the
\* state is set to loaded and cacheModelOffline starts; a rejection goes to
\* the catch block of loadModel.
RemoteSettle(i) ==
  /\ lpc[i] = "remote"
  /\ \/ /\ \/ /\ model' = [model EXCEPT ![i] = "remote"]
              /\ modelInfo' = [modelInfo EXCEPT ![i] = RemoteInfo]
              /\ loadingState' = [loadingState EXCEPT ![i] = "loaded"]
              /\ lpc' = [lpc EXCEPT ![i] = "caching"]
           \/ Store(i, "remote", RemoteInfo)
        /\ attempts' = [attempts EXCEPT
                          ![i] = Append(@, [src |-> "remote", ok |-> TRUE])]
        /\ UNCHANGED error
     \/ /\ \E err \in Thrown : LoadFailed(i, err)
        /\ attempts' = [attempts EXCEPT
                          ![i] = Append(@, [src |-> "remote", ok |-> FALSE])]
        /\ UNCHANGED <<model, modelInfo>>
  /\ UNCHANGED <<cfg, cache, cacheWrites, isOfflineMode, callVars, probeVars>>

\* cacheModelOffline without its try/catch: a failed save reaches the catch
\* block of loadModel.
CacheSettleUncaught(i) ==
  /\ lpc[i] = "caching"
  /\ \/ /\ cache' = "model"
        /\ cacheWrites' = cacheWrites + 1
        /\ lpc' = [lpc EXCEPT ![i] = "done"]
        /\ UNCHANGED <<loadingState, error>>
     \/ /\ UNCHANGED <<cache, cacheWrites>>
        /\ \E err \in Thrown : LoadFailed(i, err)
  /\ UNCHANGED <<cfg, model, modelInfo, isOfflineMode, attempts, callVars,
                 probeVars>>

\* cacheModelOffline whose catch block stores the failure with setError.
CacheSettleRecordsError(i) ==
  /\ lpc[i] = "caching"
  /\ \/ /\ cache' = "model"
        /\ cacheWrites' = cacheWrites + 1
        /\ UNCHANGED error
     \/ /\ UNCHANGED <<cache, cacheWrites>>
        /\ error' = [error EXCEPT ![i] = "Failed to cache model offline"]
  /\ lpc' = [lpc EXCEPT ![i] = "done"]
  /\ UNCHANGED <<cfg, loadingState, model, modelInfo, isOfflineMode,
                 attempts, callVars, probeVars>>

\* cacheModelOffline: model.save("indexeddb://...") settles; a failure is
\* caught and logged inside cacheModelOffline.
CacheSettle(i) ==
  /\ lpc[i] = "caching"
  /\ \/ /\ cache' = "model"
        /\ cacheWrites' = cacheWrites + 1
     \/ UNCHANGED <<cache, cacheWrites>>
  /\ lpc' = [lpc EXCEPT ![i] = "done"]
  /\ UNCHANGED <<cfg, loadingState, model, error, modelInfo, isOfflineMode,
                 attempts, callVars, probeVars>>

\* loadDemoModel: tf.sequential(...) builds the demo model, or throws.
DemoSettle(i) ==
  /\ lpc[i] = "demo"
  /\ \/ /\ \/ /\ model' = [model EXCEPT ![i] = "demo"]
              /\ modelInfo' = [modelInfo EXCEPT ![i] = DemoInfo]
              /\ loadingState' = [loadingState EXCEPT ![i] = "loaded"]
              /\ lpc' = [lpc EXCEPT ![i] = "done"]
           \/ Store(i, "demo", DemoInfo)
        /\ attempts' = [attempts EXCEPT
                          ![i] = Append(@, [src |-> "demo", ok |-> TRUE])]
        /\ UNCHANGED error
     \/ /\ \E err \in Thrown : LoadFailed(i, err)
        /\ attempts' = [attempts EXCEPT
                          ![i] = Append(@, [src |-> "demo", ok |-> FALSE])]
        /\ UNCHANGED <<model, modelInfo>>
  /\ UNCHANGED <<cfg, cache, cacheWrites, isOfflineMode, callVars, probeVars>>

\* useTensorFlowModel's return value: isReady
isReady(i) == loadingState[i] = "loaded"

\* useWasteClassification's return value: loading
wasteLoading(i) ==
  loading[i] \/ loadingState[i] = "loading" \/ apiLoading[i]


\* =====================================================================
\* Image Quality Analyzer: analyzeImageQuality
\* =====================================================================

\* An image is a non-empty sequence of pixels <<r, g, b>> (alpha is not read).
RECURSIVE ChannelSum(_)
ChannelSum(img) ==
  IF img = <<>> THEN 0
  ELSE img[1][1] + img[1][2] + img[1][3] + ChannelSum(Tail(img))

\* brightness = (sum over pixels of (r+g+b)/3) / (data.length/4), kept as the
\* exact fraction num/den.
Brightness(img) == [num |-> ChannelSum(img), den |-> 3 * Len(img)]

\* brightness > k   and   brightness < k   on the exact fraction
Above(b, k) == b.num > k * b.den
Below(b, k) == b.num < k * b.den

quality(b) ==
  IF Above(b, 100) /\ Below(b, 200) THEN "good"
  ELSE IF Above(b, 50) THEN "fair"
  ELSE "poor"

\* lightingConditions with `brightness <= 80` for the low bucket.
lightingConditionsInclusive(b) ==
  IF Above(b, 180) THEN "overexposed"
  ELSE IF ~Above(b, 80) THEN "low"
  ELSE "good"

lightingConditions(b) ==
  IF Above(b, 180) THEN "overexposed"
  ELSE IF Below(b, 80) THEN "low"
  ELSE "good"

\* clarity without Math.min(100, ...).
clarityNoUpperClamp(b) ==
  LET raw == 2 * (b.num - 50 * b.den)
      den == 3 * b.den
      lo == IF raw < 0 THEN 0 ELSE raw
  IN [num |-> lo, den |-> den]

\* Math.min(100, Math.max(0, (brightness - 50) / 1.5)) as the exact fraction
\* num/den with den = 3 * b.den :  (b - 50) / 1.5 = 2 * (num - 50 den) / (3 den)
clarity(b) ==
  LET raw == 2 * (b.num - 50 * b.den)
      den == 3 * b.den
      lo == IF raw < 0 THEN 0 ELSE raw
      hi == IF lo > 100 * den THEN 100 * den ELSE lo
  IN [num |-> hi, den |-> den]

analyzeImageQuality(img) ==
  LET b == Brightness(img) IN
  [quality |-> quality(b),
   clarity |-> clarity(b),
   lightingConditions |-> lightingConditions(b),
   objectDetectionCount |-> 1]

NoAnalysis == [quality |-> "none", clarity |-> [num |-> 0, den |-> 1],
               lightingConditions |-> "none", objectDetectionCount |-> 0]

\* =====================================================================
\* Result enrichment helpers
\* =====================================================================

Categories == {"biodegradable", "recyclable", "hazardous"}

getRecommendations(type) ==
  CASE type = "biodegradable" ->
         << "Compost in your garden or community compost bin",
            "Remove any non-organic materials before composting",
            "Consider setting up a home composting system" >>
    [] type = "recyclable" ->
         << "Clean the item before recycling",
            "Check local recycling guidelines for this material",
            "Take to your nearest recycling center",
            "Consider reusing before recycling" >>
    [] type = "hazardous" ->
         << "Do not put in regular trash",
            "Take to specialized hazardous waste facility",
            "Check for manufacturer take-back programs",
            "Store safely until proper disposal" >>
    [] OTHER -> << >>

\* The keys a result carries are kept as a set of paths.
BasicDetails == {"details.subCategory", "details.material",
                 "details.recommendations"}
EnrichedFields == {"details.environmentalImpact", "details.wasteReductionTips",
                   "details.nearestFacilities", "alternativeDisposal",
                   "carbonFootprint"}

NoResult == [type |-> "none", confidence |-> 0, fields |-> {},
             recommendations |-> << >>, imageAnalysis |-> NoAnalysis]

\* =====================================================================
\* On-device classifier: processEnhancedPredictions / classifyImage
\* =====================================================================

Max3(a, b, c) ==
  LET ab == IF a >= b THEN a ELSE b IN IF ab >= c THEN ab ELSE c

\* Math.round of a value given in hundredths (rounds half up).
RoundHundredths(x) == (x + 50) \div 100

\* The adjustment with Math.min(100, ...) as the cap.
adjustedConfidenceCap100(maxConfidence, imageAnalysis) ==
  LET raw == maxConfidence * 100
      q == IF imageAnalysis.quality = "poor" THEN (raw * 8) \div 10 ELSE raw
      l == IF imageAnalysis.lightingConditions = "low"
           THEN (q * 9) \div 10 ELSE q
      capped == IF l < 10000 THEN l ELSE 10000
  IN RoundHundredths(capped)

\* The adjustment with the 0.8 penalty on "fair" instead of "poor".
adjustedConfidenceFairPenalty(maxConfidence, imageAnalysis) ==
  LET raw == maxConfidence * 100
      q == IF imageAnalysis.quality = "fair" THEN (raw * 8) \div 10 ELSE raw
      l == IF imageAnalysis.lightingConditions = "low"
           THEN (q * 9) \div 10 ELSE q
      capped == IF l < 9900 THEN l ELSE 9900
  IN RoundHundredths(capped)

\* The confidence adjustment of processEnhancedPredictions, in hundredths:
\* maxConfidence * 100, times 0.8 for poor quality, times 0.9 for low
\* lighting, Math.min(99, ...), Math.round.
adjustedConfidence(maxConfidence, imageAnalysis) ==
  LET raw == maxConfidence * 100
      q == IF imageAnalysis.quality = "poor" THEN (raw * 8) \div 10 ELSE raw
      l == IF imageAnalysis.lightingConditions = "low"
           THEN (q * 9) \div 10 ELSE q
      capped == IF l < 9900 THEN l ELSE 9900
  IN RoundHundredths(capped)

\* processEnhancedPredictions testing hazardous first and biodegradable last.
processEnhancedPredictionsLastWins(data, imageAnalysis) ==
  LET maxConfidence == Max3(data[1], data[2], data[3])
      type == IF maxConfidence = data[3] THEN "hazardous"
              ELSE IF maxConfidence = data[2] THEN "recyclable"
              ELSE "biodegradable"
  IN [type |-> type,
      confidence |-> adjustedConfidence(maxConfidence, imageAnalysis),
      fields |-> {"type", "confidence"} \cup BasicDetails,
      recommendations |-> getRecommendations(type),
      imageAnalysis |-> NoAnalysis]

\* processEnhancedPredictions(data, imageAnalysis); data holds the three
\* scores times 100.
processEnhancedPredictions(data, imageAnalysis) ==
  LET maxConfidence == Max3(data[1], data[2], data[3])
      type == IF maxConfidence = data[1] THEN "biodegradable"
              ELSE IF maxConfidence = data[2] THEN "recyclable"
              ELSE "hazardous"
  IN [type |-> type,
      confidence |-> adjustedConfidence(maxConfidence, imageAnalysis),
      fields |-> {"type", "confidence"} \cup BasicDetails,
      recommendations |-> getRecommendations(type),
      imageAnalysis |-> NoAnalysis]

\* The object classifyImage returns after a successful inference.
classifyImage(img, data) ==
  LET imageAnalysis == analyzeImageQuality(img)
      result == processEnhancedPredictions(data, imageAnalysis)
  IN [result EXCEPT
        !.fields = @ \cup {"processingTime", "imageAnalysis"} \cup EnrichedFields,
        !.imageAnalysis = imageAnalysis]

\* =====================================================================
\* Remote API classifier: classifyImageViaAPI
\* =====================================================================

\* details: { recommendations: getRecommendations(result.type),
\*            ...result.details }: the keys of the response come last.
detailsRecommendationsRemoteLast(payload) ==
  IF "details.recommendations" \in payload.fields
  THEN payload.recommendations
  ELSE getRecommendations(payload.type)

\* details: { ...result.details,
\*            recommendations: getRecommendations(result.type) }: the key
\* written after the spread replaces the one the response carried.
detailsRecommendations(payload) == getRecommendations(payload.type)

\* The object built from a parsed response body:
\*   { ...result, processingTime, details: { ...result.details,
\*     recommendations: getRecommendations(result.type) } }
ApiResult(payload) ==
  [type |-> payload.type,
   confidence |-> payload.confidence,
   fields |-> payload.fields \cup {"processingTime", "details.recommendations"},
   recommendations |-> detailsRecommendations(payload),
   imageAnalysis |-> NoAnalysis]

\* classifyImageViaAPI with the endpoint check after setLoading(true) and
\* setError(null), still outside the try block.
classifyImageViaAPIStartLateCheck(endpoint, ld, er) ==
  [threw |-> ~endpoint,
   message |-> IF endpoint THEN Null ELSE "ML API endpoint not configured",
   loading |-> TRUE, error |-> Null]

\* classifyImageViaAPI up to its first await: the endpoint check throws
\* before setLoading(true) and setError(null) and outside the try block;
\* otherwise the two setters run and fetch is called.  ld and er are the
\* hook's loading and error.
classifyImageViaAPIStart(endpoint, ld, er) ==
  IF ~endpoint
  THEN [threw |-> TRUE, message |-> "ML API endpoint not configured",
        loading |-> ld, error |-> er]
  ELSE [threw |-> FALSE, message |-> Null, loading |-> TRUE, error |-> Null]

\* =====================================================================
\* Simulated classifier: mockClassification
\* =====================================================================

\* A value of Math.random() is kept as the exact fraction num/den in [0,1).
\* Math.floor(r * n)
FloorTimes(r, n) == (r.num * n) \div r.den

MockTypes == << "biodegradable", "recyclable", "hazardous" >>

\* The delay of the timer mockClassification awaits, in milliseconds, as the
\* exact fraction num/den: 350 + Math.random() * 400
mockDelay(rDelay) == [num |-> 350 * rDelay.den + 400 * rDelay.num,
                      den |-> rDelay.den]

\* mockClassification drawing the confidence as 85 + Math.floor(r * 16).
mockClassificationWide(rType, rConf) ==
  LET type == MockTypes[FloorTimes(rType, Len(MockTypes)) + 1]
  IN [type |-> type,
      confidence |-> 85 + FloorTimes(rConf, 16),
      fields |-> {"type", "confidence", "processingTime"} \cup BasicDetails,
      recommendations |-> getRecommendations(type),
      imageAnalysis |-> NoAnalysis]

\* mockClassification with its two draws (for type and for confidence).
mockClassification(rType, rConf) ==
  LET type == MockTypes[FloorTimes(rType, Len(MockTypes)) + 1]
  IN [type |-> type,
      confidence |-> 85 + FloorTimes(rConf, 15),
      fields |-> {"type", "confidence", "processingTime"} \cup BasicDetails,
      recommendations |-> getRecommendations(type),
      imageAnalysis |-> NoAnalysis]

\* =====================================================================
\* Orchestrator: useWasteClassification / classifyWaste
\* =====================================================================

\* classifyWaste without the two instanceof tests.
ChooseBackendAnyInput(ready, input, endpoint) ==
  IF ready THEN "ondevice"
  ELSE IF endpoint THEN "api"
  ELSE "mock"

\* classifyWaste without the isReady test.
ChooseBackendNoReadyCheck(ready, input, endpoint) ==
  IF input = "image" THEN "ondevice"
  ELSE IF endpoint /\ input = "file" THEN "api"
  ELSE "mock"

\* The two if-statements of classifyWaste that pick the backend.
ChooseBackend(ready, input, endpoint) ==
  IF ready /\ input = "image" THEN "ondevice"
  ELSE IF endpoint /\ input = "file" THEN "api"
  ELSE "mock"

\* A catch block that rethrows the backend's error.
CatchRethrow(call) == [call EXCEPT !.pc = "threw"]

\* A catch block that tries the failed backend a second time before it
\* gives up and simulates.
CatchRetrySame(call) ==
  IF Len(call.tried) = 1 /\ call.tried[1] # "mock"
  THEN [call EXCEPT !.pc = IF call.tried[1] = "api" THEN "fetch" ELSE "ondevice",
                    !.tried = Append(@, call.tried[1])]
  ELSE [call EXCEPT !.pc = "mock", !.tried = Append(@, "mock")]

\* A catch block that falls back to the remote API instead of simulating.
CatchTryApi(call) ==
  [call EXCEPT !.pc = "fetch", !.tried = Append(@, "api")]

\* The catch block of classifyWaste: mockClassification() is started.
CatchFallback(call) ==
  [call EXCEPT !.pc = "mock", !.tried = Append(@, "mock")]

\* No timer has been awaited.
NoWait == [num |-> 0, den |-> 1]

IdleCall == [pc |-> "idle", hook |-> 1, input |-> "none",
             tried |-> << >>, result |-> NoResult, waited |-> NoWait,
             live |-> {}]

\* Inputs of the on-device path: decoded images and the scores (times 100)
\* that model.predict produces for them.
SampleImages == { << <<0, 0, 0>> >>, << <<128, 128, 128>> >>,
                  << <<255, 255, 255>> >> }
SampleScores == { <<100, 0, 0>>, <<40, 40, 20>>, <<3, 2, 95>> }

\* Runs of Math.random(): the values it returns to one mockClassification
\* call, first for the delay, then for the type and then for the confidence.
RandomRuns ==
  { << [num |-> 0, den |-> 15], [num |-> 0, den |-> 15], [num |-> 14, den |-> 15] >>,
    << [num |-> 7, den |-> 15], [num |-> 7, den |-> 15], [num |-> 0, den |-> 15] >>,
    << [num |-> 14, den |-> 15], [num |-> 14, den |-> 15], [num |-> 7, den |-> 15] >> }

\* What the endpoint may answer.
Payloads ==
  { [fields |-> {"type", "confidence", "details.subCategory",
                 "details.recommendations"},
     type |-> "recyclable", confidence |-> 87,
     recommendations |-> << "Put it in the blue bin" >>],
    [fields |-> {"type", "confidence"},
     type |-> "hazardous", confidence |-> 100,
     recommendations |-> << >>],
    [fields |-> {"type", "confidence", "carbonFootprint", "modelVersion"},
     type |-> "biodegradable", confidence |-> 0,
     recommendations |-> << >>],
    [fields |-> {"type", "confidence", "details.recommendations"},
     type |-> "glass", confidence |-> 250,
     recommendations |-> << "Take it to the bottle bank" >>],
    [fields |-> {}, type |-> "undefined", confidence |-> 0,
     recommendations |-> << >>] }

\* fetch rejects; the status is not ok; the body is not JSON; the body is the
\* JSON value null; the body is a JSON object.
ResponseKinds == {"reject", "status", "badjson", "null", "object"}

\* classifyWaste up to its first await: setLoading(true), the choice of the
\* backend and the synchronous start of that backend.
StartCall(c, i, input) ==
  /\ calls[c].pc = "idle"
  /\ LET backend == ChooseBackend(isReady(i), input, cfg.apiEndpoint)
         started == [IdleCall EXCEPT !.hook = i, !.input = input,
                                     !.tried = << backend >>]
     IN
     /\ loading' = [loading EXCEPT ![i] = TRUE]
     /\ CASE backend = "ondevice" ->
               \* classifyImage: if (!model) throw new Error("Model not loaded")
               /\ calls' = [calls EXCEPT
                    ![c] = IF model[i] = Null THEN CatchFallback(started)
                           ELSE [started EXCEPT !.pc = "ondevice"]]
               /\ UNCHANGED <<apiLoading, apiError>>
          [] backend = "api" ->
               \* classifyImageViaAPI: the endpoint check, setLoading(true),
               \* setError(null), fetch
               LET st == classifyImageViaAPIStart(cfg.apiEndpoint,
                                                  apiLoading[i], apiError[i])
               IN /\ calls' = [calls EXCEPT
                       ![c] = IF st.threw THEN CatchFallback(started)
                              ELSE [started EXCEPT !.pc = "fetch"]]
                  /\ apiLoading' = [apiLoading EXCEPT ![i] = st.loading]
                  /\ apiError' = [apiError EXCEPT ![i] = st.error]
          [] OTHER ->
               /\ calls' = [calls EXCEPT ![c] = [started EXCEPT !.pc = "mock"]]
               /\ UNCHANGED <<apiLoading, apiError>>
  /\ UNCHANGED <<cfg, loadVars, direct, probeVars>>

\* The finally block of classifyWaste runs when the call settles.
Finally(i, call) ==
  IF call.pc \in {"returned", "threw"}
  THEN loading' = [loading EXCEPT ![i] = FALSE]
  ELSE UNCHANGED loading

\* The steps of classifyImage that can throw, in the order they run.
InferenceSteps == {"preprocess", "predict", "data", "enrich"}

\* The tensors of the call that are allocated and not disposed when the step
\* throws: preprocessed.tensor exists once enhancedImagePreprocessing has
\* returned, predictions once model.predict has returned, and the two
\* dispose() calls come after `await predictions.data()`.
LiveWhenThrown(step) ==
  CASE step = "preprocess" -> {}
    [] step = "predict" -> {"input"}
    [] step = "data" -> {"input", "prediction"}
    [] step = "enrich" -> {}

\* classifyImage settles: the inference succeeded and the result is returned,
\* or a step of it threw and classifyWaste catches the error.
OnDeviceSettle(c) ==
  /\ calls[c].pc = "ondevice"
  /\ \E after \in
        { [calls[c] EXCEPT !.pc = "returned", !.result = classifyImage(img, data)]
            : img \in SampleImages, data \in SampleScores }
        \cup { [CatchFallback(calls[c]) EXCEPT !.live = LiveWhenThrown(step)]
                 : step \in InferenceSteps } :
       /\ calls' = [calls EXCEPT ![c] = after]
       /\ Finally(calls[c].hook, after)
  /\ UNCHANGED <<cfg, loadVars, apiLoading, apiError, direct, probeVars>>

\* The message of the error classifyImageViaAPI throws for a response.
ApiFailure(kind) ==
  CASE kind = "reject" -> "Failed to fetch"
    [] kind = "status" -> "API request failed: Internal Server Error"
    [] kind = "badjson" -> "Unexpected token < in JSON at position 0"
    [] kind = "null" -> "Cannot read properties of null (reading 'details')"
    [] OTHER -> Null

\* fetch settles and classifyImageViaAPI runs to its end (its finally block
\* included); then classifyWaste returns the result or catches the error.
ApiSettle(c) ==
  /\ calls[c].pc = "fetch"
  /\ LET i == calls[c].hook IN
     \E kind \in ResponseKinds, payload \in Payloads :
       LET failure == ApiFailure(kind)
           after == IF failure # Null THEN CatchFallback(calls[c])
                    ELSE [calls[c] EXCEPT !.pc = "returned",
                                          !.result = ApiResult(payload)]
       IN /\ calls' = [calls EXCEPT ![c] = after]
          /\ apiError' = IF failure # Null
                         THEN [apiError EXCEPT ![i] = failure] ELSE apiError
          /\ apiLoading' = [apiLoading EXCEPT ![i] = FALSE]
          /\ Finally(i, after)
  /\ UNCHANGED <<cfg, loadVars, direct, probeVars>>

\* The timer of mockClassification fires and the mock result is returned.
MockSettleWith(c, runs) ==
  /\ calls[c].pc = "mock"
  /\ \E run \in runs :
       LET after == [calls[c] EXCEPT !.pc = "returned",
                                     !.waited = mockDelay(run[1]),
                                     !.result = mockClassification(run[2], run[3])]
       IN /\ calls' = [calls EXCEPT ![c] = after]
          /\ Finally(calls[c].hook, after)
  /\ UNCHANGED <<cfg, loadVars, apiLoading, apiError, direct, probeVars>>

MockSettle(c) == MockSettleWith(c, RandomRuns)

\* A component calls classifyImageViaAPI of its useAPIClassification hook
\* itself.
DirectApiStart(i) ==
  /\ direct[i].pc = "idle"
  /\ LET st == classifyImageViaAPIStart(cfg.apiEndpoint,
                                        apiLoading[i], apiError[i])
     IN /\ direct' = [direct EXCEPT
             ![i] = [@ EXCEPT !.pc = IF st.threw THEN "threw" ELSE "fetch",
                              !.message = st.message]]
        /\ apiLoading' = [apiLoading EXCEPT ![i] = st.loading]
        /\ apiError' = [apiError EXCEPT ![i] = st.error]
  /\ UNCHANGED <<cfg, loadVars, loading, calls, probeVars>>

\* fetch settles for the direct call: the result is returned, or the catch
\* block stores the message and rethrows; the finally block clears loading.
DirectApiSettle(i) ==
  /\ direct[i].pc = "fetch"
  /\ \E kind \in ResponseKinds, payload \in Payloads :
       LET failure == ApiFailure(kind) IN
       /\ direct' = [direct EXCEPT
            ![i] = IF failure # Null
                   THEN [@ EXCEPT !.pc = "threw", !.message = failure]
                   ELSE [@ EXCEPT !.pc = "returned",
                                  !.result = ApiResult(payload)]]
       /\ apiError' = IF failure # Null
                      THEN [apiError EXCEPT ![i] = failure] ELSE apiError
       /\ apiLoading' = [apiLoading EXCEPT ![i] = FALSE]
  /\ UNCHANGED <<cfg, loadVars, loading, calls, probeVars>>

\* =====================================================================
\* Mock authentication provider: AuthProvider (client/App.tsx)
\* =====================================================================

\* A user object is kept by the fields the operations differ in; a key whose
\* value is "undefined" is present with the value undefined, "absent" is a
\* missing key.
NoUser == [id |-> "null", points |-> 0, avatar |-> "absent"]
NoSession == [id |-> "removed", points |-> 0, avatar |-> "absent"]

\* The mockUser of login and the mockUser of signup (which has no avatar).
LoginUser == [id |-> "user-123", points |-> 2156, avatar |-> "url"]
SignupUser == [id |-> "user-now", points |-> 0, avatar |-> "absent"]

\* JSON.stringify(user): a key whose value is undefined is left out.
Stringify(u) == [u EXCEPT !.avatar = IF @ = "undefined" THEN "absent" ELSE @]

\* JSON.parse of a stored session
Parse(str) == str

\* { ...user, ...updates }
Merge(u, updates) ==
  [k \in DOMAIN u |-> IF k \in DOMAIN updates THEN updates[k] ELSE u[k]]

\* The Partial<User> objects handed to updateUser.
Updates == { [points |-> 2166], [avatar |-> "undefined"],
             [points |-> 10, avatar |-> "url"] }

\* What localStorage may hold when the provider mounts.
PriorSessions == { NoSession, Stringify(LoginUser),
                   Stringify(Merge(SignupUser, [points |-> 10])) }

\* email === 'demo@ecosort.app' && password === 'password'
Credentials == {"demo", "wrong"}

AuthIdle ==
  /\ authUser = NoUser
  /\ seenUser = NoUser
  /\ authLoading = TRUE
  /\ authPc = "mounted"
  /\ authPending = {}
  /\ stored = NoSession

AuthUnchanged == UNCHANGED <<cfg, loadVars, callVars, image, analysis, scores,
                             lighting, predicted>>

\* The mount effect: the stored session, if any, becomes the user.
Restore ==
  /\ authPc = "mounted"
  /\ authPc' = "restored"
  /\ authUser' = IF stored # NoSession THEN Parse(stored) ELSE authUser
  /\ authLoading' = FALSE
  /\ UNCHANGED <<seenUser, authPending, stored>>
  /\ AuthUnchanged

\* The provider renders again: the functions it hands out close over the
\* current user.
Render ==
  /\ seenUser # authUser
  /\ seenUser' = authUser
  /\ UNCHANGED <<authUser, authLoading, authPc, authPending, stored>>
  /\ AuthUnchanged

\* login and signup up to their await: setLoading(true), then the timer.
AuthStart(op) ==
  /\ authPc = "restored"
  /\ op \notin authPending
  /\ authPending' = authPending \cup {op}
  /\ authLoading' = TRUE
  /\ UNCHANGED <<authUser, seenUser, authPc, stored>>
  /\ AuthUnchanged

\* The timer of a login fires: the user and the session are set for the demo
\* credentials, nothing but loading changes for any other.
LoginSettle(cred) ==
  /\ [kind |-> "login", cred |-> cred] \in authPending
  /\ authPending' = authPending \ {[kind |-> "login", cred |-> cred]}
  /\ IF cred = "demo"
     THEN /\ authUser' = LoginUser
          /\ stored' = Stringify(LoginUser)
     ELSE UNCHANGED <<authUser, stored>>
  /\ authLoading' = FALSE
  /\ UNCHANGED <<seenUser, authPc>>
  /\ AuthUnchanged

\* The timer of a signup fires.
SignupSettle ==
  /\ [kind |-> "signup", cred |-> "new"] \in authPending
  /\ authPending' = authPending \ {[kind |-> "signup", cred |-> "new"]}
  /\ authUser' = SignupUser
  /\ stored' = Stringify(SignupUser)
  /\ authLoading' = FALSE
  /\ UNCHANGED <<seenUser, authPc>>
  /\ AuthUnchanged

\* logout: setUser(null) and localStorage.removeItem('ecosort_user')
Logout ==
  /\ authPc = "restored"
  /\ authUser' = NoUser
  /\ stored' = NoSession
  /\ UNCHANGED <<seenUser, authLoading, authPc, authPending>>
  /\ AuthUnchanged

\* updateUser(updates): `user` is the one the function closed over.
UpdateUser(updates) ==
  /\ authPc = "restored"
  /\ IF seenUser # NoUser
     THEN LET updatedUser == Merge(seenUser, updates) IN
          /\ authUser' = updatedUser
          /\ stored' = Stringify(updatedUser)
     ELSE UNCHANGED <<authUser, stored>>
  /\ UNCHANGED <<seenUser, authLoading, authPc, authPending>>
  /\ AuthUnchanged

\* =====================================================================
\* Specifications
\* =====================================================================

\* A direct call of classifyImageViaAPI that has not been made.
NoDirect == [pc |-> "idle", message |-> Null, result |-> NoResult]

QualityLevels == {"good", "fair", "poor"}
LightingLevels == {"good", "low", "overexposed"}
NoScores == <<0, 0, 0>>
NoPredictions == [q \in QualityLevels |-> NoResult]

Configs == [tensorflowModelUrl : BOOLEAN, apiEndpoint : BOOLEAN]
CacheStates == {"empty", "model", "corrupt"}
NoImage == << <<0, 0, 0>> >>

Init ==
  /\ cfg \in Configs
  /\ cache \in CacheStates
  /\ cacheWrites = 0
  /\ lpc = [i \in Consumers |-> "initial"]
  /\ loadingState = [i \in Consumers |-> "idle"]
  /\ model = [i \in Consumers |-> Null]
  /\ error = [i \in Consumers |-> Null]
  /\ modelInfo = [i \in Consumers |-> NoInfo]
  /\ isOfflineMode = [i \in Consumers |-> FALSE]
  /\ attempts = [i \in Consumers |-> << >>]
  /\ apiLoading = [i \in Consumers |-> FALSE]
  /\ apiError = [i \in Consumers |-> Null]
  /\ loading = [i \in Consumers |-> FALSE]
  /\ calls = [c \in Calls |-> IdleCall]
  /\ direct = [i \in Consumers |-> NoDirect]
  /\ image = NoImage
  /\ analysis = NoAnalysis
  /\ scores = NoScores
  /\ lighting = "none"
  /\ predicted = NoPredictions
  /\ AuthIdle

LoadStep(i) ==
  \/ Mount(i)
  \/ ImportSettle(i)
  \/ OfflineSettle(i)
  \/ RemoteSettle(i)
  \/ CacheSettle(i)
  \/ DemoSettle(i)
  \/ CommitLoaded(i)

Next ==
  \/ LoadStep(1)
  \/ \E c \in Calls, input \in {"image", "file"} : StartCall(c, 1, input)
  \/ \E c \in Calls : OnDeviceSettle(c)
  \/ \E c \in Calls : ApiSettle(c)
  \/ \E c \in Calls : MockSettle(c)

Spec == Init /\ [][Next]_vars


\* The load attempts of all the components that use the hooks.
LoadNext == \E i \in Consumers : LoadStep(i)

LoadSpec == Init /\ [][LoadNext]_vars

\* The event loop runs the continuation of every settled promise and fires
\* every timer; local inference ends.  Nothing bounds the time the remote
\* endpoint takes: fetch is called without a timeout or an abort signal.
LiveSpec ==
  /\ Spec
  /\ \A c \in Calls : WF_vars(OnDeviceSettle(c)) /\ WF_vars(MockSettle(c))

\* ---------------------------------------------------------------------
\* analyzeImageQuality applied to one image
\* ---------------------------------------------------------------------

GrayLevels == 0 .. 255
EdgePixels == { <<0, 0, 0>>, <<50, 50, 51>>, <<100, 100, 100>>,
                <<100, 101, 100>>, <<79, 80, 81>>, <<180, 180, 181>>,
                <<199, 200, 200>>, <<200, 200, 200>>, <<255, 255, 255>> }
ProbeImages == { << <<v, v, v>> >> : v \in GrayLevels }
               \cup { <<p, q>> : p \in EdgePixels, q \in EdgePixels }

AnalyzerInit ==
  /\ cfg = [tensorflowModelUrl |-> FALSE, apiEndpoint |-> FALSE]
  /\ cache = "empty"
  /\ cacheWrites = 0
  /\ lpc = [i \in Consumers |-> "initial"]
  /\ loadingState = [i \in Consumers |-> "idle"]
  /\ model = [i \in Consumers |-> Null]
  /\ error = [i \in Consumers |-> Null]
  /\ modelInfo = [i \in Consumers |-> NoInfo]
  /\ isOfflineMode = [i \in Consumers |-> FALSE]
  /\ attempts = [i \in Consumers |-> << >>]
  /\ apiLoading = [i \in Consumers |-> FALSE]
  /\ apiError = [i \in Consumers |-> Null]
  /\ loading = [i \in Consumers |-> FALSE]
  /\ calls = [c \in Calls |-> IdleCall]
  /\ direct = [i \in Consumers |-> NoDirect]
  /\ image \in ProbeImages
  /\ analysis = NoAnalysis
  /\ scores = NoScores
  /\ lighting = "none"
  /\ predicted = NoPredictions
  /\ AuthIdle

Analyze ==
  /\ analysis = NoAnalysis
  /\ analysis' = analyzeImageQuality(image)
  /\ UNCHANGED <<cfg, loadVars, callVars, image, scores, lighting, predicted,
                 authVars>>

AnalyzerSpec == AnalyzerInit /\ [][Analyze]_vars

\* The load attempt under the event loop: the effect runs after mount, and
\* the continuations of the local steps (the IndexedDB read and write, the
\* construction of the demo model) run once those steps settle.  Nothing
\* bounds the time of the two network steps, the dynamic import of
\* TensorFlow.js and the download of the model from the configured URL.
LoadLiveSpec ==
  /\ Spec
  /\ WF_vars(Mount(1))
  /\ WF_vars(OfflineSettle(1))
  /\ WF_vars(CacheSettle(1))
  /\ WF_vars(DemoSettle(1))
  /\ WF_vars(CommitLoaded(1))

\* The orchestrator together with a second component that uses
\* useAPIClassification itself and calls the Remote API classifier directly.
ApiNext ==
  \/ Next
  \/ DirectApiStart(NumConsumers)
  \/ DirectApiSettle(NumConsumers)

ApiSpec == Init /\ [][ApiNext]_vars

\* The state cells of every hook instance as useState initialises them.
HooksIdle ==
  /\ cacheWrites = 0
  /\ lpc = [i \in Consumers |-> "initial"]
  /\ loadingState = [i \in Consumers |-> "idle"]
  /\ model = [i \in Consumers |-> Null]
  /\ error = [i \in Consumers |-> Null]
  /\ modelInfo = [i \in Consumers |-> NoInfo]
  /\ isOfflineMode = [i \in Consumers |-> FALSE]
  /\ attempts = [i \in Consumers |-> << >>]
  /\ apiLoading = [i \in Consumers |-> FALSE]
  /\ apiError = [i \in Consumers |-> Null]
  /\ loading = [i \in Consumers |-> FALSE]
  /\ direct = [i \in Consumers |-> NoDirect]

\* No helper function is being probed and the authentication provider has
\* just been constructed.
ProbesIdle ==
  /\ image = NoImage
  /\ analysis = NoAnalysis
  /\ scores = NoScores
  /\ lighting = "none"
  /\ predicted = NoPredictions
  /\ AuthIdle

\* ---------------------------------------------------------------------
\* Two classifyWaste calls of one component that may overlap
\* ---------------------------------------------------------------------

OverlapCalls == {1, 2}

OverlapInit ==
  /\ cfg \in Configs
  /\ cache \in CacheStates
  /\ HooksIdle
  /\ calls = [c \in OverlapCalls |-> IdleCall]
  /\ ProbesIdle

OverlapNext ==
  \/ LoadStep(1)
  \/ \E c \in OverlapCalls, input \in {"image", "file"} : StartCall(c, 1, input)
  \/ \E c \in OverlapCalls : OnDeviceSettle(c)
  \/ \E c \in OverlapCalls : ApiSettle(c)
  \/ \E c \in OverlapCalls : MockSettle(c)

OverlapSpec == OverlapInit /\ [][OverlapNext]_vars

\* ---------------------------------------------------------------------
\* The authentication provider on its own
\* ---------------------------------------------------------------------

AuthOps == { [kind |-> "login", cred |-> cred] : cred \in Credentials }
           \cup { [kind |-> "signup", cred |-> "new"] }

AuthInit ==
  /\ cfg = [tensorflowModelUrl |-> FALSE, apiEndpoint |-> FALSE]
  /\ cache = "empty"
  /\ HooksIdle
  /\ calls = [c \in Calls |-> IdleCall]
  /\ image = NoImage
  /\ analysis = NoAnalysis
  /\ scores = NoScores
  /\ lighting = "none"
  /\ predicted = NoPredictions
  /\ authUser = NoUser
  /\ seenUser = NoUser
  /\ authLoading = TRUE
  /\ authPc = "mounted"
  /\ authPending = {}
  /\ stored \in PriorSessions

AuthNext ==
  \/ Restore
  \/ Render
  \/ \E op \in AuthOps : AuthStart(op)
  \/ \E cred \in Credentials : LoginSettle(cred)
  \/ SignupSettle
  \/ Logout
  \/ \E updates \in Updates : UpdateUser(updates)

AuthSpec == AuthInit /\ [][AuthNext]_vars

\* ---------------------------------------------------------------------
\* The simulated classifier over a fine grid of Math.random() values, with no
\* remote endpoint configured
\* ---------------------------------------------------------------------

Sixtieths == { [num |-> k, den |-> 60] : k \in 0 .. 59 }
FineRuns ==
  { <<rDelay, rType, rConf>> :
      rDelay \in { r \in Sixtieths : r.num \in {0, 30, 59} },
      rType \in { r \in Sixtieths : r.num \in {0, 19, 20, 39, 40, 59} },
      rConf \in Sixtieths }

MockInit ==
  /\ Init
  /\ ~cfg.apiEndpoint

MockFine == MockSettleWith(1, FineRuns)

MockNext ==
  \/ LoadStep(1)
  \/ \E input \in {"image", "file"} : StartCall(1, 1, input)
  \/ OnDeviceSettle(1)
  \/ MockFine

MockSpec == MockInit /\ [][MockNext]_vars

\* ---------------------------------------------------------------------
\* processEnhancedPredictions applied to one score vector under one
\* lighting condition, for each of the three qualities
\* ---------------------------------------------------------------------

\* Everything but the inputs of the helper functions is at rest.
HooksAtRest ==
  /\ cfg = [tensorflowModelUrl |-> FALSE, apiEndpoint |-> FALSE]
  /\ cache = "empty"
  /\ cacheWrites = 0
  /\ lpc = [i \in Consumers |-> "initial"]
  /\ loadingState = [i \in Consumers |-> "idle"]
  /\ model = [i \in Consumers |-> Null]
  /\ error = [i \in Consumers |-> Null]
  /\ modelInfo = [i \in Consumers |-> NoInfo]
  /\ isOfflineMode = [i \in Consumers |-> FALSE]
  /\ attempts = [i \in Consumers |-> << >>]
  /\ apiLoading = [i \in Consumers |-> FALSE]
  /\ apiError = [i \in Consumers |-> Null]
  /\ loading = [i \in Consumers |-> FALSE]
  /\ calls = [c \in Calls |-> IdleCall]
  /\ direct = [i \in Consumers |-> NoDirect]

Percentages == 0 .. 100
ProbeScores == { <<c, 0, 0>> : c \in Percentages }
               \cup { <<0, c, 100 - c>> : c \in {0, 30, 50, 70, 100} }
               \cup { <<40, 40, 20>>, <<20, 40, 40>>, <<40, 20, 40>>,
                      <<34, 33, 33>>,
                      <<33, 33, 33>>, <<10, 30, 60>> }

PredictInit ==
  /\ HooksAtRest
  /\ image = NoImage
  /\ analysis = NoAnalysis
  /\ scores \in ProbeScores
  /\ lighting \in LightingLevels
  /\ predicted = NoPredictions
  /\ AuthIdle

Predict ==
  /\ predicted = NoPredictions
  /\ predicted' =
       [q \in QualityLevels |->
          processEnhancedPredictions(
            scores, [NoAnalysis EXCEPT !.quality = q,
                                       !.lightingConditions = lighting])]
  /\ UNCHANGED <<cfg, loadVars, callVars, image, analysis, scores, lighting,
                 authVars>>

PredictSpec == PredictInit /\ [][Predict]_vars


\* =====================================================================
\* Properties
\* =====================================================================

Started(c) == calls[c].pc # "idle"
Returned(c) == calls[c].pc = "returned"
RealBackends == {"ondevice", "api"}
Count(seq, S) == Cardinality({k \in 1..Len(seq) : seq[k] \in S})
MockResults == { mockClassification(run[2], run[3]) : run \in RandomRuns }

\* C1: classifyWaste never propagates an exception: no call ends by throwing,
\* a call whose backend failed is simulating or has returned, and a call that
\* has ended holds a result.
C1_ClassifyNeverThrows ==
  \A c \in Calls :
    /\ calls[c].pc # "threw"
    /\ Len(calls[c].tried) > 1 => calls[c].pc \in {"mock", "returned"}
    /\ Returned(c) => calls[c].result # NoResult

\* C1 witness: the on-device inference failed and the call still returned.
C1_Witness ==
  \E c \in Calls : Returned(c) /\ calls[c].tried = <<"ondevice", "mock">>

\* C2: whenever a call is dispatched, its backend is On-Device exactly when
\* the load state is Loaded and the input is a decoded image, otherwise Remote
\* API exactly when an endpoint is configured and the input is a file,
\* otherwise Simulated.
C2_BackendIsFixedFunction ==
  [][ \A c \in Calls :
        (calls[c].pc = "idle" /\ calls'[c].pc # "idle") =>
          LET first == calls'[c].tried[1]
              input == calls'[c].input
              state == loadingState[calls'[c].hook]
              onDevice == state = "loaded" /\ input = "image"
              remote == ~onDevice /\ cfg.apiEndpoint /\ input = "file"
          IN /\ (first = "ondevice") <=> onDevice
             /\ (first = "api") <=> remote
             /\ (first = "mock") <=> (~onDevice /\ ~remote)
             /\ (input = "image" /\ state # "loaded" /\ cfg.apiEndpoint)
                  => first = "mock"
             /\ (input = "file" /\ ~cfg.apiEndpoint /\ state = "loaded")
                  => first = "mock" ]_vars

\* C2 witness: a decoded image was dispatched to the simulated classifier
\* while the model is still loading and an endpoint is configured.
C2_Witness ==
  \E c \in Calls :
    /\ calls[c].input = "image" /\ loadingState[calls[c].hook] = "loading"
    /\ cfg.apiEndpoint /\ calls[c].tried = <<"mock">>

\* C3: within one call at most one real backend is attempted, it is attempted
\* once, the simulated classifier runs at most once and only after the real
\* backend, and the call that fell back returns the simulated result.
C3_FallbackExactlyOnce ==
  \A c \in Calls :
    /\ Count(calls[c].tried, RealBackends) <= 1
    /\ Count(calls[c].tried, {"mock"}) <= 1
    /\ Len(calls[c].tried) = 2 =>
         calls[c].tried[1] \in RealBackends /\ calls[c].tried[2] = "mock"
    /\ (Returned(c) /\ Len(calls[c].tried) = 2) =>
         calls[c].result \in MockResults

\* C3 witness: the endpoint answered with a non-success status and the call
\* returned the simulated result.
C3_Witness ==
  \E c \in Calls :
    /\ Returned(c) /\ calls[c].tried = <<"api", "mock">>
    /\ apiError[calls[c].hook] = ApiFailure("status")

\* C4 as stated: every call that has started eventually returns.
C4_EveryCallReturns ==
  \A c \in Calls : Started(c) ~> Returned(c)

\* C4 amended: every call that is not waiting for the remote endpoint (it is
\* running on-device inference or the simulated classifier, also after a
\* backend failure) eventually returns.
C4_ReturnsOnceBackendSettled ==
  \A c \in Calls : (calls[c].pc \in {"ondevice", "mock"}) ~> Returned(c)

\* C4 witness: a call returned after its remote request had failed.
C4_Witness ==
  \E c \in Calls :
    /\ Returned(c) /\ calls[c].tried = <<"api", "mock">>
    /\ apiError[calls[c].hook] = ApiFailure("reject")

\* C5: the confidence of every returned result is an integer in 0..99.
C5_ConfidenceInRange ==
  \A c \in Calls :
    Returned(c) => /\ "confidence" \in calls[c].result.fields
                   /\ calls[c].result.confidence \in 0..99

HasAttempt(i, src, ok) ==
  \E k \in 1..Len(attempts[i]) :
    attempts[i][k].src = src /\ attempts[i][k].ok = ok

\* C6: a finished load attempt that found no usable cache entry and no
\* successfully loading remote model has constructed the demo model, and is
\* Loaded when that construction succeeded.
C6_DemoIsLastResort ==
  \A i \in Consumers :
    (/\ lpc[i] = "done"
     /\ HasAttempt(i, "offline", FALSE)
     /\ ~HasAttempt(i, "remote", TRUE))
    => /\ \E k \in 1..Len(attempts[i]) : attempts[i][k].src = "demo"
       /\ HasAttempt(i, "demo", TRUE) => loadingState[i] = "loaded"

SourceRank(src) ==
  CASE src = "offline" -> 1 [] src = "remote" -> 2 [] src = "demo" -> 3

\* The sources of attempt i in the order they were started: the settled ones
\* and the one in flight.
SourcesTried(i) ==
  LET settled == [k \in 1..Len(attempts[i]) |-> attempts[i][k].src]
  IN IF lpc[i] \in {"offline", "remote", "demo"}
     THEN Append(settled, lpc[i]) ELSE settled

\* C7: the sources are tried in the order offline cache, remote URL (only
\* when configured), demo model; a source is started only after every source
\* tried before it has failed, the remote URL only after the cache was tried,
\* and the demo model only after the cache failed and the URL was skipped or
\* failed.
C7_SourcesInPriorityOrder ==
  \A i \in Consumers :
    LET tried == SourcesTried(i) IN
    /\ \A j, k \in 1..Len(tried) :
         j < k => SourceRank(tried[j]) < SourceRank(tried[k])
    /\ \A k \in 1..Len(attempts[i]) :
         k < Len(tried) => ~attempts[i][k].ok
    /\ \A k \in 1..Len(tried) :
         /\ tried[k] = "remote" => cfg.tensorflowModelUrl
         /\ tried[k] # "offline" => tried[1] = "offline"
         /\ tried[k] = "demo" =>
              (~cfg.tensorflowModelUrl \/ HasAttempt(i, "remote", FALSE))

\* C7 witness: the cache missed, the URL was skipped and the demo model was
\* built; or the cache missed and the remote model loaded.
C7_Witness ==
  \E i \in Consumers :
    /\ lpc[i] = "done" /\ Len(attempts[i]) = 2
    /\ ~attempts[i][1].ok /\ attempts[i][2].ok

\* C8: at most one load attempt is in flight, one model instance exists, and
\* the remote model is written to the cache at most once.
C8_SingleLoadInFlight ==
  /\ Cardinality({i \in Consumers : loadingState[i] = "loading"}) <= 1
  /\ Cardinality({i \in Consumers : model[i] # Null}) <= 1
  /\ cacheWrites <= 1

\* C9: quality is Good when 100 < L < 200, Fair when 50 < L <= 100 and Poor
\* for every other mean luminance L.
C9_QualityBuckets ==
  analysis # NoAnalysis =>
    LET n == ChannelSum(image)
        d == 3 * Len(image)
    IN analysis.quality =
         (IF 100 * d < n /\ n < 200 * d THEN "good"
          ELSE IF 50 * d < n /\ n <= 100 * d THEN "fair"
          ELSE "poor")

\* C10: lighting is Overexposed when L > 180, Low when L < 80 and Good when
\* 80 <= L <= 180.
C10_LightingBuckets ==
  analysis # NoAnalysis =>
    LET n == ChannelSum(image)
        d == 3 * Len(image)
    IN /\ (analysis.lightingConditions = "overexposed") <=> (n > 180 * d)
       /\ (analysis.lightingConditions = "low") <=> (n < 80 * d)
       /\ (analysis.lightingConditions = "good") <=> (80 * d <= n /\ n <= 180 * d)

\* C10 witness: an image whose mean luminance is exactly 80 was analysed.
C10_Witness ==
  /\ analysis # NoAnalysis
  /\ ChannelSum(image) = 80 * 3 * Len(image)
  /\ analysis.lightingConditions = "good"


\* The largest of the three scores, on the 0..100 scale.
RawConfidence ==
  CHOOSE m \in {scores[1], scores[2], scores[3]} :
    \A k \in 1..3 : m >= scores[k]

\* C * q * l in hundredths, with q = 0.8 for poor quality and l = 0.9 for low
\* lighting.
Scaled(q) ==
  RawConfidence * (IF q = "poor" THEN 8 ELSE 10)
                * (IF lighting = "low" THEN 9 ELSE 10)

\* C11: the adjusted confidence equals round(min(99, C * q * l)) and is at
\* most 99, for every raw confidence C and every quality and lighting.
C11_AdjustedConfidence ==
  predicted # NoPredictions =>
    \A q \in QualityLevels :
      /\ predicted[q].confidence =
           (IF Scaled(q) >= 9900 THEN 99 ELSE (Scaled(q) + 50) \div 100)
      /\ predicted[q].confidence <= 99

\* C11 witness: raw confidence 100 under poor quality and low lighting was
\* adjusted to 72, and to 90 under good quality.
C11_Witness ==
  /\ scores = <<100, 0, 0>>
  /\ lighting = "low"
  /\ predicted["poor"].confidence = 72
  /\ predicted["good"].confidence = 90

\* C12: with the lighting fixed, the adjusted confidence does not increase
\* as quality degrades from good to fair to poor.
C12_MonotoneInQuality ==
  predicted # NoPredictions =>
    /\ predicted["good"].confidence >= predicted["fair"].confidence
    /\ predicted["fair"].confidence >= predicted["poor"].confidence

\* C12 witness: a raw confidence of 90 was lowered for poor quality only.
C12_Witness ==
  /\ scores = <<90, 0, 0>>
  /\ predicted["good"].confidence = 90
  /\ predicted["fair"].confidence = 90
  /\ predicted["poor"].confidence < 90


\* C13: a call starts on-device inference only while the load state of its
\* hook is Loaded and a model is set; a call issued while the state is Idle,
\* Loading or Error is routed as if there were no on-device backend: to the
\* Remote API for a file with an endpoint configured, else to the simulation.
C13_OnDeviceOnlyWhenLoaded ==
  [][ \A c \in Calls :
        LET i == calls'[c].hook IN
        /\ (calls[c].pc # "ondevice" /\ calls'[c].pc = "ondevice")
             => (loadingState[i] = "loaded" /\ model[i] # Null)
        /\ (calls[c].pc = "idle" /\ calls'[c].pc # "idle"
              /\ loadingState[i] \in {"idle", "loading", "error"})
             => /\ calls'[c].pc # "ondevice"
                /\ calls'[c].tried =
                     << IF cfg.apiEndpoint /\ calls'[c].input = "file"
                        THEN "api" ELSE "mock" >> ]_vars

\* C13 witness: a decoded image was classified after the load had failed, and
\* the call returned the simulated result without trying the model.
C13_Witness ==
  \E c \in Calls :
    /\ Returned(c)
    /\ calls[c].input = "image"
    /\ loadingState[calls[c].hook] = "error"
    /\ calls[c].tried = <<"mock">>


\* The moves of the load state the lifecycle allows.
LoadMoves == { <<"idle", "loading">>, <<"loading", "loaded">>,
               <<"loading", "error">> }

\* C14: the load state of a hook only moves Idle -> Loading, Loading -> Loaded
\* or Loading -> Error, so Loaded and Error are never left and never follow
\* one another; an attempt that has run to its end has left Loading.
C14_LoadStateMoves ==
  [][ \A i \in Consumers :
        /\ loadingState'[i] # loadingState[i]
             => <<loadingState[i], loadingState'[i]>> \in LoadMoves
        /\ lpc'[i] = "done" => loadingState'[i] \in {"loaded", "error"}
        /\ loadingState[i] \in {"loaded", "error"}
             => (error'[i] = error[i] /\ model'[i] = model[i]) ]_vars

\* C14 witness: one attempt ended in Error and another in Loaded after its
\* cache write had failed.
C14_Witness ==
  \E i, j \in Consumers :
    /\ lpc[i] = "done" /\ loadingState[i] = "error"
    /\ lpc[j] = "done" /\ loadingState[j] = "loaded"
    /\ model[j] = "remote" /\ cache # "model"

\* The cache held a model before any load attempt started.
CachedFromStart == cache = "model" /\ cacheWrites = 0

\* C15 as stated: with a model in the cache, every load attempt that has ended
\* is Loaded from the cache with offlineCapable = true, and nothing else was
\* tried.
C15_CacheHitAlwaysLoads ==
  \A i \in Consumers :
    (CachedFromStart /\ lpc[i] = "done")
    => /\ loadingState[i] = "loaded"
       /\ modelInfo[i] # NoInfo /\ modelInfo[i].offlineCapable
       /\ attempts[i] = << [src |-> "offline", ok |-> TRUE] >>

\* C15: with a model in the cache no load attempt fetches the remote model,
\* builds the demo model or writes the cache, whatever the configuration; an
\* attempt whose TensorFlow.js import succeeded ends Loaded from the cache
\* with offlineCapable = true, and one whose import failed ends in Error
\* before the cache is read.
C15_CacheHitSkipsOtherSources ==
  [][ CachedFromStart =>
        /\ cache' = "model" /\ cacheWrites' = 0
        /\ \A i \in Consumers :
             /\ lpc'[i] \notin {"remote", "caching", "demo"}
             /\ lpc'[i] = "done" =>
                  \/ /\ loadingState'[i] = "loaded"
                     /\ model'[i] = "offline"
                     /\ modelInfo'[i] = OfflineInfo
                     /\ modelInfo'[i].offlineCapable
                     /\ isOfflineMode'[i]
                     /\ attempts'[i] = << [src |-> "offline", ok |-> TRUE] >>
                  \/ /\ loadingState'[i] = "error"
                     /\ lpc[i] \in {"import", "done"}
                     /\ model'[i] = Null
                     /\ attempts'[i] = << >> ]_vars

\* C15 witness: a remote URL is configured, the cache held a model, and the
\* attempt ended Loaded in offline mode.
C15_Witness ==
  \E i \in Consumers :
    /\ cfg.tensorflowModelUrl /\ CachedFromStart
    /\ lpc[i] = "done" /\ loadingState[i] = "loaded" /\ isOfflineMode[i]

\* C16: once the remote model has loaded and its setters have run, the cache
\* write is started at once, and whether it is in flight, succeeded or failed,
\* the load state is Loaded, no error message is recorded and the remote model
\* is the usable model.
C16_CacheWriteFailureSwallowed ==
  \A i \in Consumers :
    (HasAttempt(i, "remote", TRUE) /\ lpc[i] # "stored")
    => /\ lpc[i] \in {"caching", "done"}
       /\ loadingState[i] = "loaded"
       /\ error[i] = Null
       /\ model[i] = "remote" /\ modelInfo[i] = RemoteInfo
       /\ isReady(i)
       /\ (lpc[i] = "done" /\ cacheWrites > 0) => cache = "model"

\* C16 witness: the remote model loaded, its cache write failed, and the
\* attempt ended Loaded.
C16_Witness ==
  \E i \in Consumers :
    /\ HasAttempt(i, "remote", TRUE) /\ lpc[i] = "done"
    /\ cache = "empty" /\ cacheWrites = 0
    /\ loadingState[i] = "loaded"


Settled(i) == loadingState[i] \in {"loaded", "error"}

\* No call is in on-device inference on a hook whose state is not Loaded.
NoInferenceBeforeLoaded ==
  \A c \in Calls :
    calls[c].pc = "ondevice" => loadingState[calls[c].hook] = "loaded"

\* C17 as stated: once the state is Loading, Loaded or Error is eventually
\* reached, and no on-device classification runs before that.
C17_LoadingAlwaysEnds ==
  /\ \A i \in Consumers : (loadingState[i] = "loading") ~> Settled(i)
  /\ []NoInferenceBeforeLoaded

\* C17 amended: a load attempt that is past the import leaves Loading unless
\* it waits for the download of the remote model: from the cache read and
\* from the construction of the demo model, Loaded or Error or the start of
\* the download is eventually reached; and no on-device classification runs
\* while the state is not Loaded.
C17_LoadingEndsOnceNetworkSettles ==
  /\ \A i \in Consumers :
       (lpc[i] \in {"offline", "demo"}) ~> (Settled(i) \/ lpc[i] = "remote")
  /\ \A i \in Consumers :
       (lpc[i] = "offline" /\ (cache = "model" \/ ~cfg.tensorflowModelUrl))
         ~> Settled(i)
  /\ []NoInferenceBeforeLoaded

\* C17 witness: the attempt left Loading through the demo model and a call
\* is then running on-device inference.
C17_Witness ==
  \E c \in Calls :
    /\ calls[c].pc = "ondevice"
    /\ model[calls[c].hook] = "demo"
    /\ lpc[calls[c].hook] = "done"


\* The keys Result Enrichment adds to a result.
EnrichmentKeys == {"details.recommendations", "details.environmentalImpact",
                   "details.wasteReductionTips", "alternativeDisposal",
                   "carbonFootprint"}

\* C18: every result classifyWaste returns, whichever backend produced it,
\* carries recommendations, environmental-impact figures, waste-reduction
\* tips, alternative disposal options and a carbon footprint.
C18_EveryResultEnriched ==
  \A c \in Calls :
    Returned(c) => EnrichmentKeys \subseteq calls[c].result.fields


\* The simulated results over the grid of Math.random() values.
FineResults == { mockClassification(run[2], run[3]) : run \in FineRuns }

\* C19: a call made while no model is Loaded and no endpoint is configured
\* goes straight to the simulated classifier; the result it returns has an
\* integer confidence in 85..99 and one of the three categories, and the
\* timer it waited for was set to between 350 and 750 ms; every confidence
\* 85..99 and each of the three categories is drawn for some random value.
C19_SimulatedResult ==
  /\ \A c \in Calls :
       (Started(c) /\ ~cfg.apiEndpoint /\ loadingState[calls[c].hook] # "loaded")
       => /\ calls[c].tried = <<"mock">>
          /\ Returned(c) =>
               /\ calls[c].result.confidence \in 85..99
               /\ calls[c].result.type \in Categories
               /\ 350 * calls[c].waited.den <= calls[c].waited.num
               /\ calls[c].waited.num <= 750 * calls[c].waited.den
  /\ \A k \in 85..99 : \E r \in FineResults : r.confidence = k
  /\ \A t \in Categories : \E r \in FineResults : r.type = t

\* C19 witness: with the load failed and no endpoint, a call returned the
\* simulated result hazardous with confidence 99 after more than 700 ms.
C19_Witness ==
  \E c \in Calls :
    /\ Returned(c) /\ ~cfg.apiEndpoint
    /\ loadingState[calls[c].hook] = "error"
    /\ calls[c].tried = <<"mock">>
    /\ calls[c].result.type = "hazardous"
    /\ calls[c].result.confidence = 99
    /\ calls[c].waited.num > 700 * calls[c].waited.den


\* C20: classifyImageViaAPI called with no endpoint configured throws the
\* not-configured error at once, with no request issued and with the hook's
\* loading and error left as they were; no request is ever in flight without
\* an endpoint, and classifyWaste never tries the Remote API without one.
C20_NotConfiguredFailsFast ==
  [][ /\ \A i \in Consumers :
           (direct[i].pc = "idle" /\ direct'[i].pc # "idle" /\ ~cfg.apiEndpoint)
           => /\ direct'[i].pc = "threw"
              /\ direct'[i].message = "ML API endpoint not configured"
              /\ apiLoading'[i] = apiLoading[i]
              /\ apiError'[i] = apiError[i]
      /\ \A i \in Consumers : direct'[i].pc = "fetch" => cfg.apiEndpoint
      /\ \A c \in Calls :
           \/ cfg.apiEndpoint
           \/ /\ calls'[c].pc # "fetch"
              /\ \A k \in 1..Len(calls'[c].tried) : calls'[c].tried[k] # "api"
    ]_vars

\* C20 witness: with no endpoint configured a direct call threw the
\* not-configured error with the hook's loading still false, and a
\* classifyWaste call for a file returned the simulated result.
C20_Witness ==
  /\ ~cfg.apiEndpoint
  /\ \E i \in Consumers :
       /\ direct[i].pc = "threw"
       /\ direct[i].message = "ML API endpoint not configured"
       /\ ~apiLoading[i] /\ apiError[i] = Null
  /\ \E c \in Calls :
       Returned(c) /\ calls[c].input = "file" /\ calls[c].tried = <<"mock">>


\* The results that came from the Remote API classifier: those of calls that
\* returned from it, and those of direct calls.
RemoteResults ==
  { calls[c].result : c \in { k \in Calls : Returned(k) /\ calls[k].tried = <<"api">> } }
  \cup { direct[i].result : i \in { j \in Consumers : direct[j].pc = "returned" } }

\* C21: the recommendations of every result of the Remote API classifier are
\* the local ones for the category of the response, never those the response
\* carried; a response without details or with unknown extra fields still
\* gives a result, which keeps the fields of the response.
C21_RecommendationsRecomputed ==
  \A r \in RemoteResults :
    /\ r.recommendations = getRecommendations(r.type)
    /\ \A p \in Payloads :
         p.recommendations # << >> => r.recommendations # p.recommendations
    /\ {"processingTime", "details.recommendations"} \subseteq r.fields
    /\ \E p \in Payloads : p.type = r.type /\ p.fields \subseteq r.fields

\* C21 witness: the response carried its own recommendations for recyclable
\* and the returned result holds the four local ones; a response with an
\* unknown extra field and no details was returned by a direct call.
C21_Witness ==
  /\ \E c \in Calls :
       /\ Returned(c) /\ calls[c].tried = <<"api">>
       /\ calls[c].result.type = "recyclable"
       /\ Len(calls[c].result.recommendations) = 4
  /\ \E i \in Consumers :
       /\ direct[i].pc = "returned"
       /\ "modelVersion" \in direct[i].result.fields
       /\ "details.subCategory" \notin direct[i].result.fields


\* a/b <= c/d for fractions with positive denominators
FracLeq(x, y) == x.num * y.den <= y.num * x.den

\* C22: clarity equals (L - 50) / 1.5 clamped to [0, 100]: 0 for L <= 50,
\* never above 100, and not smaller than the clarity of any darker image; a
\* uniform mid-gray image (L = 128) is analysed as quality good, lighting
\* good, clarity 52; objectDetectionCount is always 1.
C22_Clarity ==
  analysis # NoAnalysis =>
    LET n == ChannelSum(image)
        d == 3 * Len(image)
        cl == analysis.clarity
    IN /\ cl.den > 0
       /\ n <= 50 * d => cl.num = 0
       /\ (50 * d < n /\ n < 200 * d) => cl.num * 3 * d = 2 * (n - 50 * d) * cl.den
       /\ n >= 200 * d => cl.num = 100 * cl.den
       /\ 0 <= cl.num /\ cl.num <= 100 * cl.den
       /\ \A darker \in ProbeImages :
            FracLeq(Brightness(darker), Brightness(image))
              => FracLeq(analyzeImageQuality(darker).clarity, cl)
       /\ image = << <<128, 128, 128>> >> =>
            /\ analysis.quality = "good"
            /\ analysis.lightingConditions = "good"
            /\ cl.num = 52 * cl.den
       /\ analysis.objectDetectionCount = 1

\* C22 witness: the uniform mid-gray image was analysed, with clarity 52.
C22_Witness ==
  /\ image = << <<128, 128, 128>> >>
  /\ analysis.quality = "good"
  /\ analysis.clarity.num = 52 * analysis.clarity.den
  /\ analysis.objectDetectionCount = 1


CategoryIndex(t) ==
  CASE t = "biodegradable" -> 1 [] t = "recyclable" -> 2 [] t = "hazardous" -> 3

\* C23: the category of the result is one whose score is the maximum of the
\* three, the first such in the order biodegradable, recyclable, hazardous;
\* and the confidence before adjustment is that maximum on the 0..100 scale
\* (seen where neither penalty applies, capped at 99).
C23_CategoryIsFirstMaximum ==
  predicted # NoPredictions =>
    \A q \in QualityLevels :
      LET t == predicted[q].type
          k == CategoryIndex(t)
      IN /\ t \in Categories
         /\ \A j \in 1..3 : scores[j] <= scores[k]
         /\ \A j \in 1..3 : j < k => scores[j] < scores[k]
         /\ (q # "poor" /\ lighting # "low") =>
              predicted[q].confidence =
                (IF scores[k] < 99 THEN scores[k] ELSE 99)

\* C23 witness: recyclable and hazardous tie for the maximum and recyclable
\* was chosen, with confidence 40.
C23_Witness ==
  /\ scores = <<20, 40, 40>>
  /\ lighting = "good"
  /\ predicted["good"].type = "recyclable"
  /\ predicted["good"].confidence = 40


\* C24: in every state isReady implies a non-null model, the model once
\* stored is never replaced or cleared, and a call that the orchestrator
\* dispatches to classifyImage gets past its "Model not loaded" test.
C24_ReadyImpliesModel ==
  [][ /\ \A i \in Consumers :
           /\ loadingState'[i] = "loaded" => model'[i] # Null
           /\ model[i] # Null => model'[i] = model[i]
      /\ \A c \in Calls :
           (calls[c].pc = "idle" /\ calls'[c].pc # "idle"
              /\ calls'[c].tried[1] = "ondevice")
           => /\ calls'[c].pc = "ondevice"
              /\ calls'[c].tried = <<"ondevice">> ]_vars

\* C24 witness: a render showed the remote model stored while the state was
\* still Loading, and a call made then went to the simulated classifier.
C24_Witness ==
  \E c \in Calls :
    /\ calls[c].input = "image" /\ calls[c].tried = <<"mock">>
    /\ lpc[calls[c].hook] = "stored"
    /\ loadingState[calls[c].hook] = "loading"
    /\ model[calls[c].hook] = "remote"


\* The calls of hook i that have started and not yet returned.
InFlight(i) ==
  { c \in DOMAIN calls :
      calls[c].hook = i /\ calls[c].pc \in {"ondevice", "fetch", "mock"} }

\* C25: the loading flag the orchestrator hook returns is true exactly while
\* one of its classifyWaste calls is in flight, and the loading flag of its
\* Remote API hook exactly while one of its requests is in flight, however
\* the calls overlap.
C25_LoadingTracksCalls ==
  \A i \in Consumers :
    /\ wasteLoading(i) <=> (InFlight(i) # {})
    /\ apiLoading[i] <=> (\E c \in InFlight(i) : calls[c].pc = "fetch")


\* A finished attempt in which the import, the remote load or the demo
\* construction failed (an attempt that ended without trying any source
\* failed at the import).
SourceFailed(i) ==
  \/ attempts[i] = << >>
  \/ HasAttempt(i, "remote", FALSE)
  \/ HasAttempt(i, "demo", FALSE)

\* A finished attempt whose cache write failed: the remote model loaded and
\* nothing was ever written to the cache.
CacheWriteFailed(i) == HasAttempt(i, "remote", TRUE) /\ cacheWrites = 0

\* What holds of a finished attempt whatever failed: the error message is set
\* exactly in Error, the model info exactly in Loaded, and the info says
\* loaded and offline capable.
RecordsAgree(i) ==
  /\ (error[i] # Null) <=> (loadingState[i] = "error")
  /\ (modelInfo[i] # NoInfo) <=> (loadingState[i] = "loaded")
  /\ loadingState[i] = "loaded" =>
       /\ modelInfo[i].loadingState = "loaded"
       /\ modelInfo[i].offlineCapable

EndedInError(i) ==
  /\ loadingState[i] = "error"
  /\ error[i] \in {"Request failed", "Failed to load ML model"}
  /\ model[i] = Null

\* C26 as stated: after a load attempt has finished the records agree, and
\* any failure in it other than a cache miss, the failure of the cache write
\* included, left it in Error with a message and no model.
C26_AnyFailureEndsInError ==
  \A i \in Consumers :
    lpc[i] = "done" =>
      /\ RecordsAgree(i)
      /\ (SourceFailed(i) \/ CacheWriteFailed(i)) => EndedInError(i)

\* C26 amended: after a load attempt has finished the records agree; a
\* failure of the import, of the remote load or of the demo construction left
\* it in Error with a message and no model, while a failed cache write left
\* it Loaded with the remote model and no message.
C26_LoadFailureEndsInError ==
  \A i \in Consumers :
    lpc[i] = "done" =>
      /\ RecordsAgree(i)
      /\ SourceFailed(i) => EndedInError(i)
      /\ CacheWriteFailed(i) =>
           /\ loadingState[i] = "loaded" /\ error[i] = Null
           /\ model[i] = "remote"
      /\ loadingState[i] = "error" => SourceFailed(i)

\* C26 witness: one attempt failed at the remote load with a thrown value that
\* is not an Error and ended in Error with the default message; another
\* ended Loaded.
C26_Witness ==
  \E i, j \in Consumers :
    /\ lpc[i] = "done" /\ HasAttempt(i, "remote", FALSE)
    /\ error[i] = "Failed to load ML model" /\ modelInfo[i] = NoInfo
    /\ lpc[j] = "done" /\ loadingState[j] = "loaded" /\ modelInfo[j] # NoInfo


\* C27: once classifyImage has returned or thrown, neither the input tensor
\* nor the prediction tensor of the call is still allocated.
C27_TensorsDisposed ==
  \A c \in DOMAIN calls :
    (calls[c].tried # << >> /\ calls[c].tried[1] = "ondevice"
       /\ calls[c].pc # "ondevice")
    => calls[c].live = {}


\* C28: once the mount effect has run, the stored session is the JSON form of
\* the in-memory user, and both are absent together; a login with wrong
\* credentials changes neither, and with no user logged in no step other than
\* a completing login or signup (so no updateUser) changes either.
C28_SessionMatchesUser ==
  [][ /\ authPc' = "restored" =>
           /\ (authUser' = NoUser) <=> (stored' = NoSession)
           /\ authUser' # NoUser => Parse(stored') = Stringify(authUser')
      /\ ([kind |-> "login", cred |-> "wrong"] \in authPending
            /\ [kind |-> "login", cred |-> "wrong"] \notin authPending')
         => (authUser' = authUser /\ stored' = stored)
      /\ (authPc = "restored" /\ authUser = NoUser
            /\ authPending' = authPending)
         => (authUser' = NoUser /\ stored' = NoSession) ]_vars

====
